---------------------------- MODULE Spec2Model ----------------------------
(***************************************************************************)
(* Model of src/bank-assistant.py: the VectorStore (FAISS flat L2 index    *)
(* over the banking corpus), the BankingGuardrails filter and prompt       *)
(* builder, the LlamaInterface gateway, the ConversationHistory log and    *)
(* the per-turn control flow of main().                                    *)
(*                                                                         *)
(* Texts the filter inspects are sequences of one-character strings.       *)
(* Corpus passages are identified by their 0-based position in the         *)
(* banking_docs literal (all passages of the literal are distinct texts).  *)
(* The sentence encoder is external: a passage p is embedded at the point  *)
(* Embed(p) of a one-dimensional space and the embedding of a query is an  *)
(* input of the search.                                                    *)
(***************************************************************************)
EXTENDS Integers, Sequences, FiniteSets, TLC

VARIABLES
    pc,             \* position of the script run main()
    session,        \* keys present in st.session_state
    vs_attrs,       \* attributes set on the VectorStore object
    index,          \* vectors of the FAISS index, in insertion order (as passages)
    documents,      \* VectorStore.documents (as passages)
    history,        \* ConversationHistory.history
    user_input,     \* main(): user_input of the current (or last) turn
    relevant_docs,  \* main(): relevant_docs
    safe_prompt,    \* main(): safe_prompt
    response,       \* main(): response
    calls,          \* the calls made in the current (or last) turn, in order
    turns,          \* number of turns started
    vs_fail,        \* where VectorStore.__init__ raised ("none": it did not)
    search_ret,     \* outcome of the last direct call of VectorStore.search
    guard_ret       \* outcome of the last direct call of the guardrails

vars == <<pc, session, vs_attrs, index, documents, history, user_input,
          relevant_docs, safe_prompt, response, calls, turns, vs_fail,
          search_ret, guard_ret>>

---------------------------------------------------------------------------
(* Bounds *)

NumDocs == 3        \* passages in the corpus (the literal holds 55)
MaxK == 7           \* largest k passed to a direct search call
MaxTurns == 2       \* user turns per session

---------------------------------------------------------------------------
(* Text: str.lower() and the substring operator `in` *)

UpperChars == <<"A","B","C","D","E","F","G","H","I","J","K","L","M","N","O","P","Q","R","S","T","U","V","W","X","Y","Z">>
LowerChars == <<"a","b","c","d","e","f","g","h","i","j","k","l","m","n","o","p","q","r","s","t","u","v","w","x","y","z">>

LowerChar(c) ==
    IF \E i \in 1..Len(UpperChars) : UpperChars[i] = c
    THEN LowerChars[CHOOSE i \in 1..Len(UpperChars) : UpperChars[i] = c]
    ELSE c

lower(s) == [i \in 1..Len(s) |-> LowerChar(s[i])]

\* sub occurs in s at 1-based position i
MatchAt(sub, s, i) ==
    /\ i + Len(sub) - 1 <= Len(s)
    /\ SubSeq(s, i, i + Len(sub) - 1) = sub

RECURSIVE ScanFrom(_, _, _)
ScanFrom(sub, s, i) ==
    IF i + Len(sub) - 1 > Len(s) THEN FALSE
    ELSE IF MatchAt(sub, s, i) THEN TRUE
    ELSE ScanFrom(sub, s, i + 1)

\* Python: sub in s (both operands are evaluated once, then scanned)
StrIn(sub, s) == \E a \in {sub}, b \in {s} : ScanFrom(a, b, 1)

---------------------------------------------------------------------------
(* BankingGuardrails *)

FORBIDDEN_TOPICS == <<
    <<"a","c","c","o","u","n","t"," ","n","u","m","b","e","r","s">>,
    <<"s","o","c","i","a","l"," ","s","e","c","u","r","i","t","y">>,
    <<"p","a","s","s","w","o","r","d">>,
    <<"p","i","n"," ","n","u","m","b","e","r">>,
    <<"m","o","t","h","e","r","'","s"," ","m","a","i","d","e","n"," ","n","a","m","e">>,
    <<"c","r","e","d","i","t"," ","c","a","r","d"," ","n","u","m","b","e","r">>,
    <<"r","o","u","t","i","n","g"," ","n","u","m","b","e","r">> >>

REFUSAL == "I apologize, but I cannot discuss sensitive account information. How else may I help you?"

BANKING_CONTEXT == "You are a helpful banking assistant. ..."

\* faulty variant: the text is compared without lower-casing it
check_sensitive_info_NoLower(text) ==
    \E t \in 1..Len(FORBIDDEN_TOPICS) : StrIn(lower(FORBIDDEN_TOPICS[t]), text)

check_sensitive_info(text) ==
    \E t \in 1..Len(FORBIDDEN_TOPICS) : StrIn(lower(FORBIDDEN_TOPICS[t]), lower(text))

\* A prompt is the fixed text of the returned string together with the
\* values interpolated into it (none for the refusal).
create_prompt(input, docs) ==
    IF check_sensitive_info(input)
    THEN [text |-> REFUSAL, docs |-> <<>>, question |-> <<>>]
    ELSE [text |-> BANKING_CONTEXT, docs |-> docs, question |-> input]

RefusalPrompt == [text |-> REFUSAL, docs |-> <<>>, question |-> <<>>]

---------------------------------------------------------------------------
(* VectorStore *)

\* the banking_docs literal: passages 0 .. NumDocs-1 in corpus order
banking_docs == [i \in 1..NumDocs |-> i - 1]

\* encoder.encode of a passage (deterministic, distinct passages apart)
Embed(p) == 2 * p

QueryVecs == 0..(2 * NumDocs - 1)

L2sq(a, b) == (a - b) * (a - b)

Min(a, b) == IF a < b THEN a ELSE b

\* points at which construction can raise
InitFailPoints == {"none", "encoder", "index", "encode1", "add1", "encode2", "add2"}

\* _load_banking_knowledge: the state of (index, documents) it leaves when it
\* raises at fp, or returns (fp = "none")
_load_banking_knowledge(fp) ==
    IF fp \in {"encode1", "add1"}
    THEN [index |-> <<>>, documents |-> <<>>]
    ELSE IF fp \in {"encode2", "add2"}
    THEN [index |-> banking_docs, documents |-> banking_docs]
    ELSE [index |-> banking_docs \o banking_docs,
          documents |-> banking_docs \o banking_docs]

\* VectorStore.__init__: every exception is swallowed, the object keeps
\* whatever was assigned before it
VectorStore_init(fp) ==
    IF fp = "encoder"
    THEN [attrs |-> {}, index |-> <<>>, documents |-> <<>>]
    ELSE IF fp = "index"
    THEN [attrs |-> {"encoder", "dimension"}, index |-> <<>>, documents |-> <<>>]
    ELSE [attrs |-> {"encoder", "dimension", "index", "documents"},
          index |-> _load_banking_knowledge(fp).index,
          documents |-> _load_banking_knowledge(fp).documents]

\* FAISS: the n nearest of the vectors ids (0-based labels) to qv, nearest
\* first; the order among equal distances depends on the FAISS build
RECURSIVE Nearest(_, _, _, _)
Nearest(idx, ids, qv, n) ==
    IF n = 0 \/ ids = {} THEN {<<>>}
    ELSE LET d(i) == L2sq(Embed(idx[i + 1]), qv)
             best == {i \in ids : \A j \in ids : d(i) <= d(j)}
         IN  UNION { { <<i>> \o rest : rest \in Nearest(idx, ids \ {i}, qv, n - 1) }
                     : i \in best }

\* index.search(qv, k): k labels, padded with -1 when the index holds fewer
IndexSearch(idx, qv, k) ==
    { s \o [j \in 1..(k - Len(s)) |-> -1]
      : s \in Nearest(idx, 0..(Len(idx) - 1), qv, Min(k, Len(idx))) }

\* Python list indexing docs[i]: negative i counts from the end
PyIndexOk(docs, i) == -Len(docs) <= i /\ i < Len(docs)
PyIndex(docs, i) == IF i >= 0 THEN docs[i + 1] ELSE docs[Len(docs) + i + 1]

SearchFails == {"none", "encode", "index"}

\* the body of the try block of search: the set of its outcomes, each an
\* exception (exc) or the list built by the comprehension
search_try(attrs, idx, docs, qv, k, fail) ==
    IF "encoder" \notin attrs \/ fail = "encode"
    THEN {[exc |-> TRUE, value |-> <<>>]}
    ELSE IF "index" \notin attrs \/ fail = "index" \/ k <= 0
    THEN {[exc |-> TRUE, value |-> <<>>]}
    ELSE { IF \A j \in 1..Len(lab) : PyIndexOk(docs, lab[j])
           THEN [exc |-> FALSE, value |-> [j \in 1..Len(lab) |-> PyIndex(docs, lab[j])]]
           ELSE [exc |-> TRUE, value |-> <<>>]
           : lab \in IndexSearch(idx, qv, k) }

\* faulty variant: search without its except clause
search_NoExcept(attrs, idx, docs, qv, k, fail) ==
    { [raised |-> o.exc, value |-> o.value]
      : o \in search_try(attrs, idx, docs, qv, k, fail) }

\* VectorStore.search
search(attrs, idx, docs, qv, k, fail) ==
    { [raised |-> FALSE, value |-> IF o.exc THEN <<>> ELSE o.value]
      : o \in search_try(attrs, idx, docs, qv, k, fail) }

---------------------------------------------------------------------------
(* LlamaInterface *)

FALLBACK == "I apologize, but I'm having trouble generating a response at the moment. Please try again."

GenTexts == {"generated answer 1", "generated answer 2"}

\* what the Ollama backend does with one request
BackendOutcomes ==
    { [status |-> "ok", text |-> t] : t \in GenTexts }
    \cup { [status |-> e, text |-> ""]
           : e \in {"connection_error", "http_error", "no_response_key"} }

\* the body of the try block of generate_response
generate_try(prompt, outcome) ==
    IF outcome.status = "ok"
    THEN [exc |-> FALSE, value |-> outcome.text]
    ELSE [exc |-> TRUE, value |-> ""]

\* faulty variant: generate_response without its except clause
generate_response_NoExcept(prompt, outcome) ==
    [raised |-> generate_try(prompt, outcome).exc,
     value |-> generate_try(prompt, outcome).value]

\* LlamaInterface.generate_response
generate_response(prompt, outcome) ==
    [raised |-> FALSE,
     value |-> IF generate_try(prompt, outcome).exc
               THEN FALLBACK
               ELSE generate_try(prompt, outcome).value]

---------------------------------------------------------------------------
(* ConversationHistory *)

\* add_message (the timestamp is not modelled)
add_message(h, role, content) == Append(h, [role |-> role, content |-> content])

---------------------------------------------------------------------------
(* Inputs *)

AccountNumberQuery == <<"m","y"," ","a","c","c","o","u","n","t"," ","n","u","m","b","e","r"," ","i","s"," ","1","2","3","4","5">>
PinQuery == <<"w","h","a","t"," ","i","s"," ","m","y"," ","P","I","N"," ","N","u","m","b","e","r">>
CheckingQuery == <<"w","h","a","t"," ","i","s"," ","a"," ","c","h","e","c","k","i","n","g"," ","a","c","c","o","u","n","t">>
PasswordQuery == <<"h","o","w"," ","d","o"," ","I"," ","r","e","s","e","t"," ","m","y"," ","P","a","s","s","w","o","r","d">>

UserInputs == {AccountNumberQuery, PinQuery, CheckingQuery}

UpperChar(c) ==
    IF \E i \in 1..Len(LowerChars) : LowerChars[i] = c
    THEN UpperChars[CHOOSE i \in 1..Len(LowerChars) : LowerChars[i] = c]
    ELSE c

\* variants of a phrase: as is, upper-cased, capitalised, without its last
\* character, and broken by a hyphen after its first character
Variants(t) ==
    { t,
      [i \in 1..Len(t) |-> UpperChar(t[i])],
      [i \in 1..Len(t) |-> IF i = 1 THEN UpperChar(t[i]) ELSE t[i]],
      SubSeq(t, 1, Len(t) - 1),
      <<t[1], "-">> \o SubSeq(t, 2, Len(t)) }

Prefixes == { <<>>, <<"m","y"," ">>, <<"X">> }
Suffixes == { <<>>, <<" ","i","s"," ","1","2","3","4","5">>, <<"s">> }

Texts ==
    UserInputs \cup {PasswordQuery} \cup
    { pre \o mid \o suf :
        pre \in Prefixes,
        mid \in UNION { Variants(FORBIDDEN_TOPICS[t]) : t \in 1..Len(FORBIDDEN_TOPICS) },
        suf \in Suffixes }

DocLists == { <<>>, <<0>>, <<1, 1, 0>> }

DefaultK == 3

NoRet == [op |-> "none"]

\* no prompt built yet
NoPrompt == [text |-> "", docs |-> <<>>, question |-> <<>>]

---------------------------------------------------------------------------
(* main(): one script run initialises the session, later runs handle a turn *)

SessionKeys == {"conversation", "llm", "guardrails", "vector_store"}

TurnPcs == {"shown", "searched", "prompted", "generated"}

Init ==
    /\ pc = "start"
    /\ session = {}
    /\ vs_attrs = {}
    /\ index = <<>>
    /\ documents = <<>>
    /\ history = <<>>
    /\ user_input = <<>>
    /\ relevant_docs = <<>>
    /\ safe_prompt = NoPrompt
    /\ response = ""
    /\ calls = <<>>
    /\ turns = 0
    /\ vs_fail = "none"
    /\ search_ret = NoRet
    /\ guard_ret = NoRet

\* VectorStore() is constructed and stored (lines 245-246)
Construct(fp) ==
    /\ "vector_store" \notin session
    /\ vs_attrs' = VectorStore_init(fp).attrs
    /\ index' = VectorStore_init(fp).index
    /\ documents' = VectorStore_init(fp).documents
    /\ vs_fail' = fp

\* lines 238-246: first run of the script
SessionInit ==
    /\ pc = "start"
    /\ \E fp \in InitFailPoints : Construct(fp)
    /\ session' = SessionKeys
    /\ history' = <<>>
    /\ pc' = "idle"
    /\ UNCHANGED <<user_input, relevant_docs, safe_prompt, response, calls, turns,
                   search_ret, guard_ret>>

\* lines 275-281: a non-empty input arrives and is logged
UserSubmits ==
    /\ pc = "idle"
    /\ turns < MaxTurns
    /\ \E inp \in UserInputs :
          /\ user_input' = inp
          /\ history' = add_message(history, "user", inp)
    /\ calls' = <<>>
    /\ turns' = turns + 1
    /\ pc' = "shown"
    /\ UNCHANGED <<session, vs_attrs, index, documents, relevant_docs, safe_prompt,
                   response, vs_fail, search_ret, guard_ret>>

\* line 286: relevant_docs = vector_store.search(user_input)
Retrieve ==
    /\ pc = "shown"
    /\ \E qv \in QueryVecs, fail \in SearchFails :
          \E o \in search(vs_attrs, index, documents, qv, DefaultK, fail) :
             IF o.raised
             THEN pc' = "crashed" /\ UNCHANGED relevant_docs
             ELSE pc' = "searched" /\ relevant_docs' = o.value
    /\ calls' = Append(calls, "search")
    /\ UNCHANGED <<session, vs_attrs, index, documents, history, user_input,
                   safe_prompt, response, turns, vs_fail, search_ret, guard_ret>>

\* line 289: safe_prompt = guardrails.create_prompt(user_input, relevant_docs)
BuildPrompt ==
    /\ pc = "searched"
    /\ safe_prompt' = create_prompt(user_input, relevant_docs)
    /\ calls' = calls \o <<"create_prompt", "check_sensitive_info">>
    /\ pc' = "prompted"
    /\ UNCHANGED <<session, vs_attrs, index, documents, history, user_input,
                   relevant_docs, response, turns, vs_fail, search_ret, guard_ret>>

\* line 290: response = llm.generate_response(safe_prompt)
Generate ==
    /\ pc = "prompted"
    /\ \E outcome \in BackendOutcomes :
          LET r == generate_response(safe_prompt, outcome)
          IN  IF r.raised
              THEN pc' = "crashed" /\ UNCHANGED response
              ELSE pc' = "generated" /\ response' = r.value
    /\ calls' = Append(calls, "generate_response")
    /\ UNCHANGED <<session, vs_attrs, index, documents, history, user_input,
                   relevant_docs, safe_prompt, turns, vs_fail, search_ret, guard_ret>>

\* lines 292-293: the response is shown and logged; the script run ends and
\* its locals with it
Record ==
    /\ pc = "generated"
    /\ history' = add_message(history, "assistant", response)
    /\ relevant_docs' = <<>>
    /\ safe_prompt' = NoPrompt
    /\ response' = ""
    /\ pc' = "idle"
    /\ UNCHANGED <<session, vs_attrs, index, documents, user_input, calls, turns,
                   vs_fail, search_ret, guard_ret>>

Next == SessionInit \/ UserSubmits \/ Retrieve \/ BuildPrompt \/ Generate \/ Record

Spec == Init /\ [][Next]_vars

---------------------------------------------------------------------------
(* VectorStore called directly: VectorStore() and then search(query, k) *)

\* the call to make: its query embedding, its k and what fails during it
InitSearch ==
    /\ Init!1 /\ Init!2 /\ Init!3 /\ Init!4 /\ Init!5 /\ Init!6 /\ Init!7
    /\ Init!8 /\ Init!9 /\ Init!10 /\ Init!11 /\ Init!12 /\ Init!13 /\ Init!15
    /\ \E qv \in QueryVecs, k \in (-1)..MaxK, fail \in SearchFails :
          search_ret = [op |-> "none", qv |-> qv, k |-> k, fail |-> fail,
                        raised |-> FALSE, value |-> <<>>]

NewVectorStore ==
    /\ \E fp \in InitFailPoints : Construct(fp)
    /\ session' = {"vector_store"}
    /\ UNCHANGED <<pc, history, user_input, relevant_docs, safe_prompt, response,
                   calls, turns, search_ret, guard_ret>>

SearchCall ==
    /\ "vector_store" \in session
    /\ search_ret.op = "none"
    /\ \E o \in search(vs_attrs, index, documents, search_ret.qv, search_ret.k,
                        search_ret.fail) :
          search_ret' = [search_ret EXCEPT !.op = "search", !.raised = o.raised,
                                          !.value = o.value]
    /\ UNCHANGED <<pc, session, vs_attrs, index, documents, history, user_input,
                   relevant_docs, safe_prompt, response, calls, turns, vs_fail,
                   guard_ret>>

NextSearch == NewVectorStore \/ SearchCall

SpecSearch == InitSearch /\ [][NextSearch]_vars

---------------------------------------------------------------------------
(* BankingGuardrails called directly *)

\* the call to make: its text and the retrieved passages handed to it
InitGuard ==
    /\ Init!1 /\ Init!2 /\ Init!3 /\ Init!4 /\ Init!5 /\ Init!6 /\ Init!7
    /\ Init!8 /\ Init!9 /\ Init!10 /\ Init!11 /\ Init!12 /\ Init!13 /\ Init!14
    /\ \E text \in Texts, docs \in DocLists :
          guard_ret = [op |-> "none", text |-> text, docs |-> docs,
                       flagged |-> FALSE, prompt |-> NoPrompt]

CheckCall ==
    /\ guard_ret.op = "none"
    /\ guard_ret' = [guard_ret EXCEPT !.op = "check_sensitive_info",
                                      !.flagged = check_sensitive_info(guard_ret.text)]
    /\ UNCHANGED <<pc, session, vs_attrs, index, documents, history, user_input,
                   relevant_docs, safe_prompt, response, calls, turns, vs_fail,
                   search_ret>>

CreatePromptCall ==
    /\ guard_ret.op = "none"
    /\ guard_ret' = [guard_ret EXCEPT !.op = "create_prompt",
                                      !.flagged = check_sensitive_info(guard_ret.text),
                                      !.prompt = create_prompt(guard_ret.text, guard_ret.docs)]
    /\ UNCHANGED <<pc, session, vs_attrs, index, documents, history, user_input,
                   relevant_docs, safe_prompt, response, calls, turns, vs_fail,
                   search_ret>>

NextGuard == CheckCall \/ CreatePromptCall

SpecGuard == InitGuard /\ [][NextGuard]_vars

---------------------------------------------------------------------------
(* Claims *)

Count(s, x) == Cardinality({i \in 1..Len(s) : s[i] = x})

\* the corpus distance of passage p from the query of the last direct search
RetDist(p) == L2sq(Embed(p), search_ret.qv)

\* some occurrence of phrase in text, compared character by character
\* after case folding
ContainsFolded(text, phrase) ==
    \E off \in 0..(Len(text) - Len(phrase)) :
        \A j \in 1..Len(phrase) : LowerChar(text[off + j]) = LowerChar(phrase[j])

\* C1 (as claimed): in a turn whose input the sensitive-topic check flags,
\* generate_response is not invoked at any point.
C1_NoGenerationWhenFlagged ==
    (turns > 0 /\ check_sensitive_info(user_input))
        => \A i \in 1..Len(calls) : calls[i] # "generate_response"

\* C2 (as claimed): in every turn the filter is evaluated before search is
\* called, and for a flagged input search is not invoked.
C2_FilterGatesRetrieval ==
    turns > 0 =>
        /\ \A i \in 1..Len(calls) :
              calls[i] = "search" =>
                  \E j \in 1..(i - 1) : calls[j] = "check_sensitive_info"
        /\ check_sensitive_info(user_input)
              => \A i \in 1..Len(calls) : calls[i] # "search"

\* C3 (as claimed): when a turn with a flagged input has completed, the
\* assistant message appended for it is exactly the fixed refusal string.
C3_FlaggedTurnAnswersRefusal ==
    (pc = "idle" /\ turns > 0 /\ check_sensitive_info(user_input))
        => history[Len(history)] = [role |-> "assistant", content |-> REFUSAL]

\* C4 (as claimed): for "my account number is 12345" check_sensitive_info
\* returns true and create_prompt returns the fixed refusal.
C4_AccountNumberQueryRefused ==
    (guard_ret.op # "none" /\ guard_ret.text = AccountNumberQuery)
        => /\ guard_ret.flagged
           /\ guard_ret.op = "create_prompt" => guard_ret.prompt = RefusalPrompt

\* C5 (as claimed): search(q, k) returns at most k results, never the same
\* document twice, ordered by ascending squared-L2 distance with ties
\* broken by ascending document id.
C5_SearchResultOrdered ==
    search_ret.op = "search" =>
        LET v == search_ret.value
        IN  /\ Len(v) <= (IF search_ret.k > 0 THEN search_ret.k ELSE 0)
            /\ \A i, j \in 1..Len(v) : i < j => v[i] # v[j]
            /\ \A i, j \in 1..Len(v) :
                  i < j => \/ RetDist(v[i]) < RetDist(v[j])
                           \/ RetDist(v[i]) = RetDist(v[j]) /\ v[i] < v[j]

\* C6 (as claimed): on a store built without error, a search that does not
\* fail with k at least the corpus size returns the entire corpus, each
\* passage exactly once, in relevance order.
C6_LargeKReturnsCorpus ==
    (search_ret.op = "search" /\ vs_fail = "none" /\ search_ret.fail = "none"
        /\ search_ret.k >= NumDocs) =>
        LET v == search_ret.value
        IN  /\ Len(v) = NumDocs
            /\ {v[i] : i \in 1..Len(v)} = 0..(NumDocs - 1)
            /\ \A i, j \in 1..Len(v) : i < j => RetDist(v[i]) <= RetDist(v[j])

\* C7 (as claimed): after a construction that raised nothing the index and
\* the documents list hold each corpus passage exactly once, and document
\* id i denotes corpus passage i.
C7_SingleInsertion ==
    ("vector_store" \in session /\ vs_fail = "none") =>
        /\ Len(index) = NumDocs
        /\ Len(documents) = NumDocs
        /\ \A i \in 1..Len(documents) : documents[i] = banking_docs[i]

\* C8: search never raises to its caller; when the query encoding or the
\* index search fails (an injected failure, k <= 0, or a store left without
\* its encoder, its index or its documents by a failed construction) it
\* returns the empty list.
C8_SearchNeverRaises ==
    search_ret.op = "search" =>
        /\ ~search_ret.raised
        /\ (\/ search_ret.fail # "none"
            \/ search_ret.k <= 0
            \/ "encoder" \notin vs_attrs
            \/ "index" \notin vs_attrs
            \/ Len(documents) = 0) => search_ret.value = <<>>

C8_Witness ==
    /\ search_ret.op = "search"
    /\ vs_fail = "none"
    /\ search_ret.fail = "index"
    /\ search_ret.k = DefaultK
    /\ ~search_ret.raised
    /\ search_ret.value = <<>>

\* C9: every turn completes whatever fails in retrieval or generation: no
\* exception escapes and a started turn always has its next step to take,
\* the user message is logged and exactly one assistant message (generated
\* answer, fallback or refusal) is logged after it, with search and
\* generation each attempted at most once.
C9_TurnCompletes ==
    /\ pc # "crashed"
    /\ pc \in TurnPcs => ENABLED (Retrieve \/ BuildPrompt \/ Generate \/ Record)
    /\ Count(calls, "search") <= 1
    /\ Count(calls, "generate_response") <= 1
    /\ \A i \in 1..Len(history) :
          history[i].role = (IF i % 2 = 1 THEN "user" ELSE "assistant")
    /\ pc \in TurnPcs =>
          /\ Len(history) = 2 * turns - 1
          /\ history[Len(history)].content = user_input
    /\ (pc = "idle" /\ turns > 0) =>
          /\ Len(history) = 2 * turns
          /\ history[Len(history) - 1].content = user_input
          /\ history[Len(history)].content \in GenTexts \cup {FALLBACK, REFUSAL}
          /\ Count(calls, "search") = 1
          /\ Count(calls, "generate_response") = 1

C9_Witness ==
    /\ pc = "idle"
    /\ turns = 1
    /\ vs_fail = "encoder"
    /\ history[Len(history)] = [role |-> "assistant", content |-> FALLBACK]

\* C10: check_sensitive_info(text) is true iff the case-folded text contains
\* a case-folded forbidden phrase as a contiguous substring; the call
\* changes nothing of the program's state.
C10_CheckIffSubstring ==
    guard_ret.op # "none" =>
        /\ guard_ret.flagged <=>
              \E t \in 1..Len(FORBIDDEN_TOPICS) :
                  ContainsFolded(guard_ret.text, FORBIDDEN_TOPICS[t])
        /\ history = <<>> /\ session = {} /\ index = <<>> /\ documents = <<>>

C10_Witness ==
    /\ guard_ret.op = "check_sensitive_info"
    /\ guard_ret.flagged
    /\ guard_ret.text # lower(guard_ret.text)

=============================================================================
